---- MODULE Spec2Model ----
(***************************************************************************)
(* Model of the docTR detection zoo (doctr/models/detection/zoo.py), the   *)
(* TextNet factory (doctr/models/classification/textnet/tensorflow.py) and *)
(* the OCR route of the API (api/app/routes/ocr.py, api/app/schemas.py).   *)
(*                                                                         *)
(* Python objects live in heaps and are named by their index: a model      *)
(* passed to two calls is the same heap cell.  Floats are written in       *)
(* thousandths.  An exception leaving a function is the record the         *)
(* function "returns" with kind "raise".                                   *)
(***************************************************************************)
EXTENDS Integers, Sequences, FiniteSets, TLC

VARIABLES
    tf_available,     \* is_tf_available(), fixed at process start
    torch_available,  \* is_torch_available(), fixed at process start
    ARCHS,            \* zoo.py module global ARCHS
    heap,             \* detection model objects, by identity
    predictors,       \* DetectionPredictor objects returned so far and still held
    lastCall,         \* arch, assume_straight_pages, kwargs of the latest detection_predictor call
    trace,            \* constructor/loader calls made by the latest call, in order
    ret,              \* outcome of the latest detection_predictor call
    ocrCall,          \* the latest perform_ocr: request, files, what the collaborators did
    ocrTrace,         \* collaborator calls made by the latest perform_ocr, in order
    ocrResp,          \* outcome of the latest perform_ocr
    default_cfgs,     \* textnet module global default_cfgs
    lists,            \* Python list objects (the "classes" lists), by identity
    tnModels,         \* TextNet objects returned so far
    tnCall,           \* arguments of the latest _textnet call
    tnTrace,          \* constructor/loader calls made by the latest _textnet, in order
    tnRet             \* outcome of the latest _textnet call

zooVars == <<heap, predictors, lastCall, trace, ret>>
ocrVars == <<ocrCall, ocrTrace, ocrResp>>
tnVars == <<default_cfgs, lists, tnModels, tnCall, tnTrace, tnRet>>
envVars == <<tf_available, torch_available, ARCHS>>
vars == <<tf_available, torch_available, ARCHS, heap, predictors, lastCall, trace, ret,
          ocrCall, ocrTrace, ocrResp,
          default_cfgs, lists, tnModels, tnCall, tnTrace, tnRet>>

(***************************************************************************)
(* Bounds of the model.                                                    *)
(***************************************************************************)
MaxModels == 1
MaxPredictors == 2
MaxTextNets == 1
MaxFiles == 2

(***************************************************************************)
(* Generic helpers for Python lists and dicts.                             *)
(***************************************************************************)
InList(x, l) == \E i \in DOMAIN l : l[i] = x

\* dict.get(key, default)
Get(d, key, default) == IF key \in DOMAIN d THEN d[key] ELSE default

\* d[key] = value
Put(d, key, value) == [k \in (DOMAIN d) \cup {key} |-> IF k = key THEN value ELSE d[k]]

\* d.pop(key, None)
Pop(d, key) == [k \in (DOMAIN d) \ {key} |-> d[k]]

Count(s, e) == Cardinality({i \in DOMAIN s : s[i] = e})

(***************************************************************************)
(* zoo.py: the two registries and the choice of ARCHS at module load.      *)
(***************************************************************************)
ArchsTF ==
    <<"db_resnet50", "db_mobilenet_v3_large", "linknet_resnet18", "linknet_resnet34",
      "linknet_resnet50", "fast_tiny", "fast_small", "fast_base">>

ArchsTorch ==
    <<"db_resnet34", "db_resnet50", "db_mobilenet_v3_large", "linknet_resnet18",
      "linknet_resnet34", "linknet_resnet50", "fast_tiny", "fast_small", "fast_base">>

\* A name that is only annotated ("ARCHS: List[str]") is not bound.
Unbound == [bound |-> FALSE, names |-> <<>>]

Bound(l) == [bound |-> TRUE, names |-> l]

\* A mutation of LoadARCHS: the elif branch is lost.
LoadARCHSNoElif(tf, torch) == IF tf THEN Bound(ArchsTF) ELSE Unbound

\* The if/elif at module level, lines 20-42.
LoadARCHS(tf, torch) ==
    IF tf THEN Bound(ArchsTF)
    ELSE IF torch THEN Bound(ArchsTorch)
    ELSE Unbound

\* doctr.file_utils refuses to import when neither backend is available, so a
\* process in which zoo.py is loaded has at least one.
Backends == {b \in BOOLEAN \X BOOLEAN : b[1] \/ b[2]}

(***************************************************************************)
(* Collaborators of _predictor that the zoo imports: the detection         *)
(* builders, reparameterize, PreProcessor, DetectionPredictor.             *)
(***************************************************************************)
SupportedFamilies == {"DBNet", "LinkNet", "FAST"}

\* detection.__dict__[name] builds a model of the family its name says.
FamilyOf(name) ==
    CASE name \in {"db_resnet34", "db_resnet50", "db_mobilenet_v3_large"} -> "DBNet"
      [] name \in {"linknet_resnet18", "linknet_resnet34", "linknet_resnet50"} -> "LinkNet"
      [] name \in {"fast_tiny", "fast_small", "fast_base"} -> "FAST"
      [] OTHER -> "Other"

\* The default cfg of a detection architecture: mean, std, input_shape, in
\* the layout of the backend (H, W, C for TensorFlow, C, H, W for PyTorch).
DefaultCfg(name, tf) ==
    [k \in {"mean", "std", "input_shape"} |->
        CASE k = "mean" -> <<798, 785, 772>>
          [] k = "std" -> <<264, 275, 287>>
          [] OTHER -> IF tf THEN <<1024, 1024, 3>> ELSE <<3, 1024, 1024>>]

\* detection.<name>(pretrained, pretrained_backbone, assume_straight_pages)
BuildModel(name, pretrained, pretrained_backbone, assume_straight_pages, tf) ==
    [family |-> FamilyOf(name),
     assume_straight_pages |-> assume_straight_pages,
     cfg |-> DefaultCfg(name, tf),
     reparameterized |-> 0]

\* reparameterize(model): fuses the branches of the model in place and returns it.
reparameterize(m) == [m EXCEPT !.reparameterized = @ + 1]

\* x[:-1] and x[1:]
DropLast(s) == SubSeq(s, 1, Len(s) - 1)

DropFirst(s) == SubSeq(s, 2, Len(s))

\* PreProcessor(output_size, **kwargs)
PreProcessor(output_size, kwargs) == [output_size |-> output_size, kwargs |-> kwargs]

\* DetectionPredictor(pre_processor, model): the model is held by reference.
DetectionPredictor(pre_processor, model) == [pre_processor |-> pre_processor, model |-> model]

(***************************************************************************)
(* Inputs of detection_predictor.                                          *)
(***************************************************************************)
\* The names a caller passes: one of each family, one that only the PyTorch
\* registry holds, and one that no registry holds.
ArchNames == {"db_resnet34", "db_resnet50", "linknet_resnet18", "fast_base", "not_a_real_model"}

StrArch(name) == [isstr |-> TRUE, name |-> name, ref |-> 0]

RefArch(id) == [isstr |-> FALSE, name |-> "", ref |-> id]

UserMean == <<485, 456, 406>>

UserStd == <<229, 224, 225>>

\* The keyword arguments a caller may pass: each key is given by one of
\* them and left out by the other.
KwargsSet ==
    LET full == [k \in {"mean", "std", "batch_size", "pretrained_backbone"} |->
                    CASE k = "mean" -> UserMean
                      [] k = "std" -> UserStd
                      [] k = "batch_size" -> 4
                      [] OTHER -> FALSE]
    IN  {[k \in D |-> full[k]] :
            D \in {{"mean", "batch_size"}, {"std", "pretrained_backbone"}}}

\* The model objects a caller may construct on its own: any family, among
\* them one the zoo does not support, each with a cfg of its own.  The cfg
\* of a caller's DBNet also holds a "batch_size", that of a caller's
\* LinkNet holds no "std".
UserCfg(family, tf) ==
    [k \in CASE family = "DBNet" -> {"mean", "std", "input_shape", "batch_size"}
             [] family = "LinkNet" -> {"mean", "input_shape"}
             [] OTHER -> {"mean", "std", "input_shape"} |->
        CASE k = "mean" -> <<500, 500, 500>>
          [] k = "std" -> <<250, 250, 250>>
          [] k = "batch_size" -> 8
          [] OTHER -> IF tf THEN <<512, 512, 3>> ELSE <<3, 512, 512>>]

NoCall == [arch |-> StrArch(""), assume_straight_pages |-> FALSE, kwargs |-> <<>>]

NoValue == DetectionPredictor(PreProcessor(<<>>, <<>>), 0)

NoRet == [kind |-> "none", exc |-> "", msg |-> "", arg |-> "", value |-> NoValue]

Raise(exc, msg, arg) ==
    [kind |-> "raise", exc |-> exc, msg |-> msg, arg |-> arg, value |-> NoValue]

Return(v) == [kind |-> "return", exc |-> "", msg |-> "", arg |-> "", value |-> v]

(***************************************************************************)
(* zoo.py: _predictor and detection_predictor.                             *)
(***************************************************************************)
\* A mutation of KnownArch: the name is looked up in a fixed registry
\* instead of the active one.
KnownArchFixed(name, archs) == InList(name, ArchsTorch)

\* Line 47: arch in ARCHS.
KnownArch(name, archs) == InList(name, archs)

\* A mutation of SupportedInstance: the isinstance check accepts anything.
SupportedInstanceAny(m) == TRUE

\* Line 59: isinstance(arch, (detection.DBNet, detection.LinkNet, detection.FAST)).
SupportedInstance(m) == m.family \in SupportedFamilies

\* A mutation of SetStraightPages: the assignment is lost.
SetStraightPagesLost(m, assume_straight_pages) == m

\* Line 63: _model.assume_straight_pages = assume_straight_pages.
SetStraightPages(m, assume_straight_pages) ==
    [m EXCEPT !.assume_straight_pages = assume_straight_pages]

\* A mutation of MaybeReparameterize: every model is reparameterized.
MaybeReparameterizeAll(m) == reparameterize(m)

\* Lines 56-57: FAST models are reparameterized.
MaybeReparameterize(m) == IF m.family = "FAST" THEN reparameterize(m) ELSE m

\* Line 69: the batch size of a caller that names none.
DefaultBatchSize == 2

\* A mutation of MergeKwargs: the model's cfg wins over the caller's keywords.
MergeKwargsCfgFirst(kwargs, cfg) ==
    LET kw0 == Pop(kwargs, "pretrained_backbone")
        kw1 == Put(kw0, "mean", cfg["mean"])
        kw2 == Put(kw1, "std", cfg["std"])
    IN  Put(kw2, "batch_size", DefaultBatchSize)

\* Lines 65-69: the keywords handed to PreProcessor.  Called only with a cfg
\* that holds "mean" and "std" (see CfgComplete).
MergeKwargs(kwargs, cfg) ==
    LET kw0 == Pop(kwargs, "pretrained_backbone")
        kw1 == Put(kw0, "mean", Get(kw0, "mean", cfg["mean"]))
        kw2 == Put(kw1, "std", Get(kw1, "std", cfg["std"]))
    IN  Put(kw2, "batch_size", Get(kw2, "batch_size", DefaultBatchSize))

\* The subscripts of lines 67, 68 and 71 are evaluated whatever the caller
\* passed: a cfg without one of the keys raises KeyError.
CfgMissing(cfg) ==
    IF "mean" \notin DOMAIN cfg THEN "mean"
    ELSE IF "std" \notin DOMAIN cfg THEN "std"
    ELSE IF "input_shape" \notin DOMAIN cfg THEN "input_shape"
    ELSE ""

\* Line 71: the spatial part of the model's input shape.
OutputSize(cfg, tf) ==
    IF tf THEN DropLast(cfg["input_shape"]) ELSE DropFirst(cfg["input_shape"])

\* Lines 65-74, with the heap h and the trace tr the branch above left.
WrapModel(h, id, kwargs, tr) ==
    LET cfg == h[id].cfg
    IN  IF CfgMissing(cfg) # ""
        THEN /\ heap' = h
             /\ predictors' = predictors
             /\ trace' = tr
             /\ ret' = Raise("KeyError", "", CfgMissing(cfg))
        ELSE LET pre == PreProcessor(OutputSize(cfg, tf_available), MergeKwargs(kwargs, cfg))
             IN  /\ heap' = h
                 /\ predictors' = predictors \cup {DetectionPredictor(pre, id)}
                 /\ trace' = tr \o <<"PreProcessor", "DetectionPredictor">>
                 /\ ret' = Return(DetectionPredictor(pre, id))

_predictor(arch, pretrained, assume_straight_pages, kwargs) ==
    /\ lastCall' = [arch |-> arch, assume_straight_pages |-> assume_straight_pages,
                    kwargs |-> kwargs]
    /\ IF arch.isstr
       THEN IF ~ARCHS.bound
            THEN /\ ret' = Raise("NameError", "name is not defined", "ARCHS")
                 /\ trace' = <<>>
                 /\ UNCHANGED <<heap, predictors>>
            ELSE IF ~KnownArch(arch.name, ARCHS.names)
            THEN /\ ret' = Raise("ValueError", "unknown architecture", arch.name)
                 /\ trace' = <<>>
                 /\ UNCHANGED <<heap, predictors>>
            ELSE \E loaded \in BOOLEAN :
                 \* the builder loads weights only when pretrained, and may fail
                 /\ pretrained \/ loaded
                 /\ IF ~loaded
                    THEN /\ ret' = Raise("LoadError", "", arch.name)
                         /\ trace' = <<"build", "load_pretrained_params">>
                         /\ UNCHANGED <<heap, predictors>>
                    ELSE /\ Len(heap) < MaxModels
                         /\ Cardinality(predictors) < MaxPredictors
                         /\ LET built == BuildModel(arch.name, pretrained,
                                                    Get(kwargs, "pretrained_backbone", TRUE),
                                                    assume_straight_pages, tf_available)
                                tr == <<"build">>
                                      \o (IF pretrained THEN <<"load_pretrained_params">> ELSE <<>>)
                                      \o (IF MaybeReparameterize(built) # built
                                          THEN <<"reparameterize">> ELSE <<>>)
                            IN  WrapModel(Append(heap, MaybeReparameterize(built)),
                                          Len(heap) + 1, kwargs, tr)
       ELSE IF ~SupportedInstance(heap[arch.ref])
            THEN /\ ret' = Raise("ValueError", "unknown architecture:", heap[arch.ref].family)
                 /\ trace' = <<>>
                 /\ UNCHANGED <<heap, predictors>>
            ELSE /\ Cardinality(predictors) < MaxPredictors
                 /\ WrapModel([heap EXCEPT ![arch.ref] =
                                  SetStraightPages(@, assume_straight_pages)],
                              arch.ref, kwargs, <<>>)

detection_predictor(arch, pretrained, assume_straight_pages, kwargs) ==
    /\ _predictor(arch, pretrained, assume_straight_pages, kwargs)
    /\ UNCHANGED <<envVars, ocrVars, tnVars>>

\* The caller constructs a model object of its own.
NewModel(family, assume_straight_pages) ==
    /\ Len(heap) < MaxModels
    /\ heap' = Append(heap, [family |-> family,
                             assume_straight_pages |-> assume_straight_pages,
                             cfg |-> UserCfg(family, tf_available),
                             reparameterized |-> 0])
    /\ UNCHANGED <<predictors, lastCall, trace, ret, envVars, ocrVars, tnVars>>

Archs == {StrArch(n) : n \in ArchNames} \cup {RefArch(i) : i \in DOMAIN heap}

NextZoo ==
    \/ \E arch \in Archs, pretrained \in BOOLEAN, assume_straight_pages \in BOOLEAN,
          kwargs \in KwargsSet :
          detection_predictor(arch, pretrained, assume_straight_pages, kwargs)
    \/ \E family \in SupportedFamilies \cup {"Other"}, assume_straight_pages \in BOOLEAN :
          NewModel(family, assume_straight_pages)

(***************************************************************************)
(* api/app: the collaborators of perform_ocr (get_documents,               *)
(* init_predictor, the predictor, resolve_geometry).                       *)
(***************************************************************************)
NoExc == [exc |-> "", msg |-> "", arg |-> ""]

Exc(exc, msg, arg) == [exc |-> exc, msg |-> msg, arg |-> arg]

\* get_documents(files): the content and the name of each upload, in upload
\* order, or the exception that reading them raised.
get_documents(files, env) ==
    IF env.at # "get_documents"
    THEN [error |-> NoExc,
          content |-> [i \in DOMAIN files |-> files[i].content],
          filenames |-> [i \in DOMAIN files |-> files[i].filename]]
    ELSE [error |-> Exc(env.exc, "cannot read document", ""),
          content |-> <<>>, filenames |-> <<>>]

\* init_predictor(request): builds the predictors of the request with
\* pretrained weights.  The detection architecture goes through the check of
\* _predictor; the weight loader may raise.
init_predictor(request, archs, env) ==
    IF ~KnownArch(request.det_arch, archs)
    THEN Exc("ValueError", "unknown architecture", request.det_arch)
    ELSE IF env.at = "init_predictor"
    THEN Exc(env.exc, "cannot load weights", request.det_arch)
    ELSE NoExc

Box(a, b, c, d) == <<a, b, c, d>>

Word(value, geometry, confidence) ==
    [value |-> value, geometry |-> geometry, confidence |-> confidence,
     crop_orientation |-> [value |-> 0, confidence |-> 0]]

\* What the predictor reads in an image: the page it returns for it.
PageFor(content) ==
    IF content = 1
    THEN [orientation |-> [value |-> 0, confidence |-> 990],
          language |-> [value |-> "en", confidence |-> 870],
          dimensions |-> <<100, 200>>,
          blocks |-> <<[geometry |-> Box(100, 100, 600, 200),
                        lines |-> <<[geometry |-> Box(100, 100, 600, 200),
                                     words |-> <<Word("hello", Box(100, 100, 300, 200), 987),
                                                 Word("world", Box(400, 100, 600, 200), 123)>>]>>],
                       [geometry |-> Box(0, 500, 500, 600),
                        lines |-> <<>>]>>]
    ELSE [orientation |-> [value |-> 90, confidence |-> 510],
          language |-> [value |-> "fr", confidence |-> 640],
          dimensions |-> <<300, 400>>,
          blocks |-> <<>>]

\* predictor(content): one page per image, in the order of the images.
RunPredictor(content) == [pages |-> [i \in DOMAIN content |-> PageFor(content[i])]]

\* resolve_geometry(geom): a box goes through as it is.
resolve_geometry(geom) == geom

(***************************************************************************)
(* routes/ocr.py: perform_ocr.                                             *)
(***************************************************************************)
\* round(x, 2) on thousandths that do not end in 5.
Round2(x) == ((x + 5) \div 10) * 10

\* Lines 44-49.
OCRWord(word) ==
    [value |-> word.value,
     geometry |-> resolve_geometry(word.geometry),
     confidence |-> Round2(word.confidence),
     crop_orientation |-> word.crop_orientation]

\* Lines 41-52.
OCRLine(line) ==
    [geometry |-> resolve_geometry(line.geometry),
     words |-> [w \in DOMAIN line.words |-> OCRWord(line.words[w])]]

\* Lines 38-55.
OCRBlock(block) ==
    [geometry |-> resolve_geometry(block.geometry),
     lines |-> [l \in DOMAIN block.lines |-> OCRLine(block.lines[l])]]

\* Lines 36-58.
OCRPage(page) == [blocks |-> [b \in DOMAIN page.blocks |-> OCRBlock(page.blocks[b])]]

\* A mutation of OCROut: every result carries the name of the first upload.
OCROutFirstName(filenames, i, page) ==
    [name |-> filenames[1],
     orientation |-> page.orientation,
     language |-> page.language,
     dimensions |-> page.dimensions,
     items |-> <<OCRPage(page)>>]

\* Lines 30-60: the result of the i-th page.
OCROut(filenames, i, page) ==
    [name |-> filenames[i],
     orientation |-> page.orientation,
     language |-> page.language,
     dimensions |-> page.dimensions,
     items |-> <<OCRPage(page)>>]

\* A mutation of Caught: the handler catches every exception.
CaughtAny(exc) == TRUE

\* Line 24: except ValueError.
Caught(exc) == exc = "ValueError"

NoResp == [kind |-> "none", status |-> 0, detail |-> NoExc, results |-> <<>>]

\* raise HTTPException(status_code=..., detail=str(e))
HTTPException(status, e) == [kind |-> "HTTPException", status |-> status, detail |-> e, results |-> <<>>]

\* An exception that leaves perform_ocr as it was raised.
Propagates(e) == [kind |-> "raise", status |-> 0, detail |-> e, results |-> <<>>]

\* Lines 29-62: for i, page in enumerate(out.pages); filenames[i] raises
\* IndexError when out holds more pages than there are names.
Results(filenames, out) ==
    IF Len(out.pages) > Len(filenames)
    THEN Propagates(Exc("IndexError", "list index out of range", ""))
    ELSE [kind |-> "return", status |-> 200, detail |-> NoExc,
          results |-> [i \in DOMAIN out.pages |-> OCROut(filenames, i, out.pages[i])]]

\* env: which collaborator fails this time, if any, and with what exception.
perform_ocr(request, files, env) ==
    LET docs == get_documents(files, env)
        init == init_predictor(request, ARCHS.names, env)
    IN  /\ ocrCall' = [request |-> request, files |-> files, env |-> env]
        /\ IF docs.error # NoExc
           THEN /\ ocrTrace' = <<"get_documents">>
                /\ ocrResp' = IF Caught(docs.error.exc)
                              THEN HTTPException(400, docs.error)
                              ELSE Propagates(docs.error)
           ELSE IF init # NoExc
           THEN /\ ocrTrace' = <<"get_documents", "init_predictor">>
                /\ ocrResp' = IF Caught(init.exc)
                              THEN HTTPException(400, init)
                              ELSE Propagates(init)
           ELSE IF env.at = "predictor"
           THEN /\ ocrTrace' = <<"get_documents", "init_predictor", "predictor">>
                /\ ocrResp' = Propagates(Exc(env.exc, "cannot run", ""))
           ELSE /\ ocrTrace' = <<"get_documents", "init_predictor", "predictor">>
                /\ ocrResp' = Results(docs.filenames, RunPredictor(docs.content))
        /\ UNCHANGED <<envVars, zooVars, tnVars>>

Filenames == {"a.png", "b.png"}

Contents == {1, 2}

Uploads == [filename : Filenames, content : Contents]

FileLists == UNION {[1..n -> Uploads] : n \in 0..MaxFiles}

\* The request schema, of which the route reads det_arch (schemas.py, line 12).
Requests == {[det_arch |-> a] : a \in {"db_resnet50", "db_resnet34", "not_a_real_model"}}

NoFault == [at |-> "", exc |-> ""]

\* The first collaborator to fail and the class of what it raises: reading
\* and weight loading may raise a ValueError or something else.
Envs ==
    {NoFault}
    \cup [at : {"get_documents", "init_predictor"}, exc : {"ValueError", "OSError"}]
    \cup {[at |-> "predictor", exc |-> "RuntimeError"]}

NextOcr ==
    \E request \in Requests, files \in FileLists, env \in Envs :
        perform_ocr(request, files, env)

(***************************************************************************)
(* textnet/tensorflow.py: default_cfgs, TextNet, _textnet and the three    *)
(* entry points.  A dict is a function on its keys; a list is a cell of    *)
(* the variable lists, so that two dicts can hold the same list.           *)
(***************************************************************************)
TextnetArchs == {"textnet_tiny", "textnet_small", "textnet_base"}

\* list(VOCABS["french"]): the characters of the vocabulary.
French == <<"a", "b", "c">>

\* Lines 25, 32, 39.
UrlOf(arch) ==
    CASE arch = "textnet_tiny" ->
           "https://doctr-static.mindee.com/models?id=v0.8.1/textnet_tiny-fe9cc245.zip&src=0"
      [] arch = "textnet_small" ->
           "https://doctr-static.mindee.com/models?id=v0.8.1/textnet_small-29c39c82.zip&src=0"
      [] OTHER ->
           "https://doctr-static.mindee.com/models?id=v0.8.1/textnet_base-168aa82c.zip&src=0"

\* The list cell that the module load gives the "classes" of an entry: each
\* entry calls list(...) and so has a list of its own.
ClassesCell(arch) ==
    CASE arch = "textnet_tiny" -> 1
      [] arch = "textnet_small" -> 2
      [] OTHER -> 3

\* Lines 19-41: default_cfgs after the module load.
InitialDefaultCfgs ==
    [arch \in TextnetArchs |->
        [k \in {"mean", "std", "input_shape", "classes", "url"} |->
            CASE k = "mean" -> <<694, 695, 693>>
              [] k = "std" -> <<299, 296, 301>>
              [] k = "input_shape" -> <<32, 32, 3>>
              [] k = "classes" -> ClassesCell(arch)
              [] OTHER -> UrlOf(arch)]]

InitialLists == <<French, French, French>>

\* The stages each entry point passes: the number of layers of each stage.
StagesOf(arch) ==
    CASE arch = "textnet_tiny" -> <<3, 4, 4, 4>>
      [] arch = "textnet_small" -> <<2, 8, 8, 5>>
      [] OTHER -> <<10, 10, 8, 5>>

\* Lines 57-94: TextNet(stages, input_shape, num_classes, include_top, cfg)
\* with the defaults of the signature for what kwargs leaves out.
TextNet(cfg, kwargs) ==
    [stages |-> kwargs["stages"],
     input_shape |-> Get(kwargs, "input_shape", <<32, 32, 3>>),
     num_classes |-> Get(kwargs, "num_classes", 1000),
     include_top |-> Get(kwargs, "include_top", TRUE),
     cfg |-> cfg,
     weights |-> ""]

\* load_pretrained_params(model, url) when it succeeds: the model holds the
\* weights of the url.
load_pretrained_params(model, url) == [model EXCEPT !.weights = url]

\* A mutation of ShouldLoad: the weights are loaded whatever pretrained says.
ShouldLoadAlways(pretrained) == TRUE

\* Line 115: if pretrained.
ShouldLoad(pretrained) == pretrained

\* Lines 102-104: the defaults of num_classes, input_shape and classes.
TextnetKwargs(arch, kwargs) ==
    LET kw1 == Put(kwargs, "num_classes",
                   Get(kwargs, "num_classes", Len(lists[default_cfgs[arch]["classes"]])))
        kw2 == Put(kw1, "input_shape",
                   Get(kw1, "input_shape", default_cfgs[arch]["input_shape"]))
    IN  Put(kw2, "classes", Get(kw2, "classes", default_cfgs[arch]["classes"]))

\* A mutation of TextnetCfg: num_classes of the cfg is counted from classes.
TextnetCfgCounted(arch, kw, copyCell) ==
    LET copied == [default_cfgs[arch] EXCEPT !["classes"] = copyCell]
        c1 == Put(copied, "num_classes", Len(lists[kw["classes"]]))
        c2 == Put(c1, "input_shape", kw["input_shape"])
    IN  Put(c2, "classes", kw["classes"])

\* Lines 106-109: deepcopy gives _cfg a list of its own, in the fresh cell
\* copyCell, and the three assignments put the values of kwargs in its place.
TextnetCfg(arch, kw, copyCell) ==
    LET copied == [default_cfgs[arch] EXCEPT !["classes"] = copyCell]
        c1 == Put(copied, "num_classes", kw["num_classes"])
        c2 == Put(c1, "input_shape", kw["input_shape"])
    IN  Put(c2, "classes", kw["classes"])

Event(op, arg) == [op |-> op, arg |-> arg]

TnNoRet == [kind |-> "none", exc |-> "", value |-> 0]

\* fails: whether load_pretrained_params raises, should it be called.
_textnet(arch, pretrained, kwargs, fails) ==
    LET kw == TextnetKwargs(arch, kwargs)
        copyCell == Len(lists) + 1
        _cfg == TextnetCfg(arch, kw, copyCell)
        model == TextNet(_cfg, Pop(kw, "classes"))
        url == default_cfgs[arch]["url"]
    IN  /\ tnCall' = [arch |-> arch, pretrained |-> pretrained,
                      kwargs |-> Pop(kwargs, "stages"), fails |-> fails]
        \* the list deepcopy made is referenced by nothing once line 109 ran
        /\ lists' = IF _cfg["classes"] = copyCell THEN Append(lists, lists[kw["classes"]])
                    ELSE lists
        /\ default_cfgs' = default_cfgs
        /\ IF ~ShouldLoad(pretrained)
           THEN /\ Len(tnModels) < MaxTextNets
                /\ tnTrace' = <<Event("TextNet", arch)>>
                /\ tnModels' = Append(tnModels, model)
                /\ tnRet' = [kind |-> "return", exc |-> "", value |-> Len(tnModels) + 1]
           ELSE IF fails
           THEN /\ tnTrace' = <<Event("TextNet", arch), Event("load_pretrained_params", url)>>
                /\ tnModels' = tnModels
                /\ tnRet' = [kind |-> "raise", exc |-> "LoadError", value |-> 0]
           ELSE /\ Len(tnModels) < MaxTextNets
                /\ tnTrace' = <<Event("TextNet", arch), Event("load_pretrained_params", url)>>
                /\ tnModels' = Append(tnModels, load_pretrained_params(model, url))
                /\ tnRet' = [kind |-> "return", exc |-> "", value |-> Len(tnModels) + 1]
        /\ UNCHANGED <<envVars, zooVars, ocrVars>>

\* Lines 121-164.
textnet_tiny(pretrained, kwargs, fails) ==
    _textnet("textnet_tiny", pretrained, Put(kwargs, "stages", StagesOf("textnet_tiny")), fails)

\* Lines 167-210.
textnet_small(pretrained, kwargs, fails) ==
    _textnet("textnet_small", pretrained, Put(kwargs, "stages", StagesOf("textnet_small")), fails)

\* Lines 213-268.
textnet_base(pretrained, kwargs, fails) ==
    _textnet("textnet_base", pretrained, Put(kwargs, "stages", StagesOf("textnet_base")), fails)

\* The caller makes a list of classes of its own.
NewClasses(classes) ==
    /\ Len(lists) < Len(InitialLists) + MaxTextNets
    /\ lists' = Append(lists, classes)
    /\ UNCHANGED <<default_cfgs, tnModels, tnCall, tnTrace, tnRet, envVars, zooVars, ocrVars>>

\* The keyword arguments a caller may pass: none, a number of classes, a
\* list of classes, or all three overrides; classes is a list the caller holds.
TextnetKwargsSet ==
    LET full(cell) == [k \in {"num_classes", "input_shape", "classes"} |->
                          CASE k = "num_classes" -> 10
                            [] k = "input_shape" -> <<64, 64, 3>>
                            [] OTHER -> cell]
    IN  {[k \in D |-> full(0)[k]] : D \in {{}, {"num_classes"}}}
        \cup {[k \in D |-> full(cell)[k]] :
                 D \in {{"classes"}, {"num_classes", "input_shape", "classes"}},
                 cell \in DOMAIN lists \ DOMAIN InitialLists}

NextTextnet ==
    \/ \E pretrained \in BOOLEAN, kwargs \in TextnetKwargsSet, fails \in BOOLEAN :
          (pretrained \/ ~fails) /\ textnet_tiny(pretrained, kwargs, fails)
    \/ \E pretrained \in BOOLEAN, kwargs \in TextnetKwargsSet, fails \in BOOLEAN :
          (pretrained \/ ~fails) /\ textnet_small(pretrained, kwargs, fails)
    \/ \E pretrained \in BOOLEAN, kwargs \in TextnetKwargsSet, fails \in BOOLEAN :
          (pretrained \/ ~fails) /\ textnet_base(pretrained, kwargs, fails)
    \/ \E classes \in {<<"0", "1">>} : NewClasses(classes)

(***************************************************************************)
(* Initial states: the process has loaded its modules.                     *)
(***************************************************************************)
InitEnv ==
    \E b \in Backends :
        /\ tf_available = b[1]
        /\ torch_available = b[2]
        /\ ARCHS = LoadARCHS(b[1], b[2])

InitZoo ==
    /\ heap = <<>>
    /\ predictors = {}
    /\ lastCall = NoCall
    /\ trace = <<>>
    /\ ret = NoRet

InitOcr ==
    /\ ocrCall = [request |-> [det_arch |-> ""], files |-> <<>>,
                  env |-> NoFault]
    /\ ocrTrace = <<>>
    /\ ocrResp = NoResp

InitTextnet ==
    /\ default_cfgs = InitialDefaultCfgs
    /\ lists = InitialLists
    /\ tnModels = <<>>
    /\ tnCall = [arch |-> "", pretrained |-> FALSE, kwargs |-> <<>>, fails |-> FALSE]
    /\ tnTrace = <<>>
    /\ tnRet = TnNoRet

Init == InitEnv /\ InitZoo /\ InitOcr /\ InitTextnet

SpecZoo == Init /\ [][NextZoo]_vars

SpecOcr == Init /\ [][NextOcr]_vars

SpecTextnet == Init /\ [][NextTextnet]_vars

(***************************************************************************)
(* Properties of the detection zoo, checked under SpecZoo.                 *)
(***************************************************************************)
Bools == BOOLEAN

\* The steps that are a call of detection_predictor with these arguments.
CallStep(arch, assume_straight_pages, kwargs) ==
    \E pretrained \in Bools : detection_predictor(arch, pretrained, assume_straight_pages, kwargs)

\* C1: a call with a string that ARCHS does not hold raises the
\* unknown-architecture ValueError and builds nothing: no builder, loader,
\* PreProcessor or DetectionPredictor call, no new model, no new predictor.
C1_UnknownNameBuildsNothing ==
    [][\A name \in ArchNames, asp \in Bools, kwargs \in KwargsSet :
          (CallStep(StrArch(name), asp, kwargs) /\ ~InList(name, ARCHS.names))
          => /\ ret' = Raise("ValueError", "unknown architecture", name)
             /\ trace' = <<>>
             /\ heap' = heap
             /\ predictors' = predictors]_vars

\* An unknown name was passed while a model and a predictor already exist.
C1_Witness ==
    /\ lastCall.arch.isstr
    /\ lastCall.arch.name = "not_a_real_model"
    /\ ~InList(lastCall.arch.name, ARCHS.names)
    /\ ret.kind = "raise"
    /\ heap # <<>>
    /\ predictors # {}

\* C2: a call with an object of no supported family raises the
\* unsupported-model ValueError, returns no predictor and leaves every
\* object, the passed one included, as it was.
C2_UnsupportedInstanceUntouched ==
    [][\A id \in DOMAIN heap, asp \in Bools, kwargs \in KwargsSet :
          (CallStep(RefArch(id), asp, kwargs) /\ heap[id].family \notin {"DBNet", "LinkNet", "FAST"})
          => /\ ret' = Raise("ValueError", "unknown architecture:", heap[id].family)
             /\ trace' = <<>>
             /\ heap' = heap
             /\ predictors' = predictors]_vars

\* An object of another family was passed with the opposite flag value.
C2_Witness ==
    /\ ~lastCall.arch.isstr
    /\ lastCall.arch.ref \in DOMAIN heap
    /\ heap[lastCall.arch.ref].family = "Other"
    /\ heap[lastCall.arch.ref].assume_straight_pages # lastCall.assume_straight_pages
    /\ ret.kind = "raise"

\* C3: after a call that returned a predictor, by name or by instance, the
\* model the predictor wraps has the caller's assume_straight_pages.
C3_StraightPagesIsCallers ==
    ret.kind = "return"
    => heap[ret.value.model].assume_straight_pages = lastCall.assume_straight_pages

\* A predictor was returned for an instance that an earlier call had wrapped.
C3_Witness ==
    /\ ret.kind = "return"
    /\ ~lastCall.arch.isstr
    /\ lastCall.assume_straight_pages = FALSE
    /\ \E p \in predictors : p # ret.value /\ p.model = ret.value.model

PreKeys == {"mean", "std", "batch_size"}

\* C4 as claimed: each of mean, std, batch_size reaches PreProcessor as the
\* caller's value when given, and as the value of the model's cfg otherwise.
C4_DefaultsFromCfg ==
    ret.kind = "return"
    => \A k \in PreKeys :
          LET got == ret.value.pre_processor.kwargs
              cfg == heap[ret.value.model].cfg
          IN  /\ k \in DOMAIN got
              /\ IF k \in DOMAIN lastCall.kwargs
                 THEN got[k] = lastCall.kwargs[k]
                 ELSE k \in DOMAIN cfg /\ got[k] = cfg[k]

\* C4 as amended: mean and std default to the model's cfg, batch_size
\* defaults to 2 whatever the cfg holds.
C4_DefaultsFromCfgOrTwo ==
    ret.kind = "return"
    => \A k \in PreKeys :
          LET got == ret.value.pre_processor.kwargs
              cfg == heap[ret.value.model].cfg
          IN  /\ k \in DOMAIN got
              /\ IF k \in DOMAIN lastCall.kwargs
                 THEN got[k] = lastCall.kwargs[k]
                 ELSE IF k = "batch_size"
                 THEN got[k] = 2
                 ELSE k \in DOMAIN cfg /\ got[k] = cfg[k]

\* A predictor was built without batch_size for a model whose cfg names one.
C4_Witness ==
    /\ ret.kind = "return"
    /\ "batch_size" \notin DOMAIN lastCall.kwargs
    /\ "batch_size" \in DOMAIN heap[ret.value.model].cfg
    /\ heap[ret.value.model].cfg["batch_size"] = 8
    /\ ret.value.pre_processor.kwargs["batch_size"] = 2
    /\ ret.value.pre_processor.kwargs["mean"] = heap[ret.value.model].cfg["mean"]
    /\ ret.value.pre_processor.kwargs["std"] = UserStd

\* C5 as claimed: no step changes assume_straight_pages of a model that a
\* predictor built earlier wraps.
C5_WrappedModelKeepsFlag ==
    [][\A p \in predictors :
          heap'[p.model].assume_straight_pages = heap[p.model].assume_straight_pages]_vars

\* C9: after a call by name that returned a predictor, the wrapped model has
\* been reparameterized once if it is a FAST model and never otherwise, and
\* mean and std, when the caller gave none, are those of the wrapped model.
C9_ReparameterizedIffFast ==
    (ret.kind = "return" /\ lastCall.arch.isstr)
    => LET m == heap[ret.value.model]
           got == ret.value.pre_processor.kwargs
       IN  /\ m.reparameterized = (IF m.family = "FAST" THEN 1 ELSE 0)
           /\ Count(trace, "reparameterize") = m.reparameterized
           /\ "mean" \notin DOMAIN lastCall.kwargs => got["mean"] = m.cfg["mean"]
           /\ "std" \notin DOMAIN lastCall.kwargs => got["std"] = m.cfg["std"]

\* A FAST model was built by name and wrapped.
C9_Witness ==
    /\ ret.kind = "return"
    /\ lastCall.arch.isstr
    /\ lastCall.arch.name = "fast_base"
    /\ heap[ret.value.model].family = "FAST"
    /\ heap[ret.value.model].reparameterized = 1
    /\ trace = <<"build", "load_pretrained_params", "reparameterize", "PreProcessor",
                 "DetectionPredictor">>

\* C10: ARCHS is always bound to one of the two registries, the TensorFlow
\* one when TensorFlow is available and the PyTorch one otherwise, and no
\* step changes it.
C10_OneRegistryActive ==
    /\ [](/\ ARCHS.bound
          /\ ARCHS.names \in {ArchsTF, ArchsTorch}
          /\ tf_available => ARCHS.names = ArchsTF
          /\ ~tf_available => (torch_available /\ ARCHS.names = ArchsTorch))
    /\ [][ARCHS' = ARCHS]_vars

\* Under PyTorch alone a name of the PyTorch registry only was accepted.
C10_Witness ==
    /\ ~tf_available
    /\ torch_available
    /\ ARCHS = Bound(ArchsTorch)
    /\ lastCall.arch.name = "db_resnet34"
    /\ ret.kind = "return"

(***************************************************************************)
(* Properties of perform_ocr, checked under SpecOcr.                       *)
(***************************************************************************)
\* The exception class of the first failure of the latest request before
\* the predictor runs, "" when reading and initialising succeed.
FailsBeforeRun ==
    IF ocrCall.env.at = "get_documents" THEN ocrCall.env.exc
    ELSE IF ~InList(ocrCall.request.det_arch, ARCHS.names) THEN "ValueError"
    ELSE IF ocrCall.env.at = "init_predictor" THEN ocrCall.env.exc
    ELSE ""

PredictorSucceeded ==
    ocrTrace # <<>> /\ FailsBeforeRun = "" /\ ocrCall.env.at # "predictor"

\* The blocks of a result are those of the page: as many blocks, lines and
\* words, each with the geometry and the value of its counterpart.
SameBlocks(item, page) ==
    /\ Len(item.blocks) = Len(page.blocks)
    /\ \A b \in DOMAIN page.blocks :
          /\ item.blocks[b].geometry = page.blocks[b].geometry
          /\ Len(item.blocks[b].lines) = Len(page.blocks[b].lines)
          /\ \A l \in DOMAIN page.blocks[b].lines :
                /\ item.blocks[b].lines[l].geometry = page.blocks[b].lines[l].geometry
                /\ Len(item.blocks[b].lines[l].words) = Len(page.blocks[b].lines[l].words)
                /\ \A w \in DOMAIN page.blocks[b].lines[l].words :
                      item.blocks[b].lines[l].words[w].value
                          = page.blocks[b].lines[l].words[w].value

\* C6: when the predictor succeeds on N uploads, perform_ocr returns N
\* results in upload order; result i has the name of upload i, the
\* orientation, language, dimensions and blocks of page i, and one item.
C6_OneResultPerUpload ==
    PredictorSucceeded
    => /\ ocrResp.kind = "return"
       /\ Len(ocrResp.results) = Len(ocrCall.files)
       /\ \A i \in DOMAIN ocrCall.files :
             LET r == ocrResp.results[i]
                 page == PageFor(ocrCall.files[i].content)
             IN  /\ r.name = ocrCall.files[i].filename
                 /\ r.orientation = page.orientation
                 /\ r.language = page.language
                 /\ r.dimensions = page.dimensions
                 /\ Len(r.items) = 1
                 /\ SameBlocks(r.items[1], page)

\* Two uploads of different names and contents were answered.
C6_Witness ==
    /\ PredictorSucceeded
    /\ Len(ocrCall.files) = 2
    /\ ocrCall.files[1].filename = "b.png"
    /\ ocrCall.files[2].filename = "a.png"
    /\ ocrCall.files[1].content # ocrCall.files[2].content
    /\ Len(ocrResp.results) = 2

NeverRan ==
    /\ ~InList("predictor", ocrTrace)
    /\ ocrResp.results = <<>>
    /\ ocrResp.kind # "return"
    /\ Count(ocrTrace, "get_documents") = 1
    /\ Count(ocrTrace, "init_predictor") <= 1

\* C7 as claimed: an error of reading the documents or of initialising the
\* predictor is answered with HTTP 400 carrying its message; the predictor
\* does not run, nothing is returned, nothing is tried twice.
C7_AnyErrorIs400 ==
    (ocrTrace # <<>> /\ FailsBeforeRun # "")
    => /\ ocrResp.kind = "HTTPException"
       /\ ocrResp.status = 400
       /\ ocrResp.detail.exc = FailsBeforeRun
       /\ NeverRan

\* C7 as amended: a ValueError is answered with HTTP 400 carrying its
\* message, an exception of another class leaves perform_ocr as raised; in
\* both cases the predictor does not run, nothing is returned or retried.
C7_ValueErrorIs400 ==
    (ocrTrace # <<>> /\ FailsBeforeRun # "")
    => /\ IF FailsBeforeRun = "ValueError"
          THEN ocrResp.kind = "HTTPException" /\ ocrResp.status = 400
          ELSE ocrResp.kind = "raise"
       /\ ocrResp.detail.exc = FailsBeforeRun
       /\ NeverRan

\* A request naming an unknown architecture was answered with HTTP 400.
C7_Witness ==
    /\ ocrCall.request.det_arch = "not_a_real_model"
    /\ ocrCall.env = NoFault
    /\ Len(ocrCall.files) = 2
    /\ ocrResp = HTTPException(400, Exc("ValueError", "unknown architecture", "not_a_real_model"))
    /\ ocrTrace = <<"get_documents", "init_predictor">>

(***************************************************************************)
(* Properties of _textnet, checked under SpecTextnet.                      *)
(***************************************************************************)
Loads == {i \in DOMAIN tnTrace : tnTrace[i].op = "load_pretrained_params"}

\* C8: _textnet calls the weight loader once when pretrained and never
\* otherwise, with the url of the architecture; a failing load leaves
\* _textnet as raised, and no model is returned.
C8_LoadOnceOrRaise ==
    /\ [](tnTrace # <<>>
          => /\ Cardinality(Loads) = (IF tnCall.pretrained THEN 1 ELSE 0)
             /\ \A i \in Loads : tnTrace[i].arg = UrlOf(tnCall.arch)
             /\ Count(tnTrace, Event("TextNet", tnCall.arch)) = 1
             /\ IF tnCall.pretrained /\ tnCall.fails
                THEN tnRet = [kind |-> "raise", exc |-> "LoadError", value |-> 0]
                ELSE /\ tnRet.kind = "return"
                     /\ tnModels[tnRet.value].weights
                            = (IF tnCall.pretrained THEN UrlOf(tnCall.arch) ELSE ""))
    /\ [][tnRet'.kind = "raise" => tnModels' = tnModels]_vars

\* A pretrained textnet_small was asked for and the load failed.
C8_Witness ==
    /\ tnCall.arch = "textnet_small"
    /\ tnCall.pretrained
    /\ tnCall.fails
    /\ tnRet.kind = "raise"
    /\ tnTrace = <<Event("TextNet", "textnet_small"),
                   Event("load_pretrained_params", UrlOf("textnet_small"))>>

\* The list cells that default_cfgs holds.
DefaultCells == {default_cfgs[a]["classes"] : a \in TextnetArchs}

\* default_cfgs and the lists it holds are as the module load left them.
DefaultCfgsUnchanged ==
    /\ default_cfgs = InitialDefaultCfgs
    /\ \A a \in TextnetArchs : lists[default_cfgs[a]["classes"]] = French

\* C11 as claimed: after any builds default_cfgs is as the module load left
\* it, and the classes list of a built model's cfg is neither a list of
\* default_cfgs nor the list of another model's cfg.
C11_DefaultCfgsIsolated ==
    /\ DefaultCfgsUnchanged
    /\ \A m \in DOMAIN tnModels : tnModels[m].cfg["classes"] \notin DefaultCells
    /\ \A m, n \in DOMAIN tnModels :
          m # n => tnModels[m].cfg["classes"] # tnModels[n].cfg["classes"]

\* C12 as claimed: the cfg of a returned model agrees with itself and with
\* the network: num_classes is the length of classes and the num_classes of
\* the network, input_shape is the input_shape of the network.
C12_CfgSelfConsistent ==
    \A m \in DOMAIN tnModels :
        LET model == tnModels[m]
        IN  /\ model.cfg["num_classes"] = Len(lists[model.cfg["classes"]])
            /\ model.cfg["num_classes"] = model.num_classes
            /\ model.cfg["input_shape"] = model.input_shape

\* C12 as amended: num_classes and input_shape of the cfg are those of the
\* network; num_classes is the caller's, or the length of the default
\* classes when the caller names none, classes is the caller's list, or the
\* default one; with neither override num_classes is the length of classes.
C12_CfgMatchesNetwork ==
    tnRet.kind = "return"
    => LET model == tnModels[tnRet.value]
           kw == tnCall.kwargs
           defaults == InitialDefaultCfgs[tnCall.arch]
       IN  /\ model.cfg["num_classes"] = model.num_classes
           /\ model.cfg["input_shape"] = model.input_shape
           /\ model.cfg["num_classes"]
                 = (IF "num_classes" \in DOMAIN kw THEN kw["num_classes"]
                    ELSE Len(lists[defaults["classes"]]))
           /\ model.cfg["input_shape"]
                 = (IF "input_shape" \in DOMAIN kw THEN kw["input_shape"]
                    ELSE defaults["input_shape"])
           /\ model.cfg["classes"]
                 = (IF "classes" \in DOMAIN kw THEN kw["classes"] ELSE defaults["classes"])
           /\ ("num_classes" \notin DOMAIN kw /\ "classes" \notin DOMAIN kw)
              => model.cfg["num_classes"] = Len(lists[model.cfg["classes"]])

\* A model was built with a list of two classes and no num_classes: its cfg
\* and its network count the three default classes.
C12_Witness ==
    /\ tnRet.kind = "return"
    /\ DOMAIN tnCall.kwargs = {"classes"}
    /\ Len(lists[tnModels[tnRet.value].cfg["classes"]]) = 2
    /\ tnModels[tnRet.value].cfg["num_classes"] = 3
    /\ tnModels[tnRet.value].num_classes = 3

====
